---- MODULE Spec2Model ----
(***************************************************************************)
(* Model of the documentation-freshness auditor                            *)
(* (.github/scripts/review-docs.js, the Orchestrator) and of its           *)
(* companion gate (.github/scripts/check-review-date.js, the Verifier).    *)
(*                                                                         *)
(* Representation choices.                                                 *)
(*  - A document's content is the sequence of its lines (the text split on *)
(*    "\n").  A line is a record [k, key, lit, txt]:                       *)
(*        k = "marker" : "reviewed at " ++ lit ++ txt                      *)
(*        k = "kv"     : key ++ ": " ++ (lit, if any, else txt)            *)
(*        k = "delim"  : "---"                                             *)
(*        k = "blank"  : ""                                                *)
(*        k = "text"   : txt, a line that matches none of the patterns     *)
(*    lit is a date literal dddd-dd-dd, the triple <<y, m, d>> of its      *)
(*    three numbers (<<>> when the line carries none).                     *)
(*  - A Date is [some, day, ms]: day is the number of whole days since     *)
(*    1970-01-01 UTC and ms the milliseconds into that day, so the time    *)
(*    value is day * MS_PER_DAY + ms (kept as a pair: the 30 day window in *)
(*    milliseconds does not fit TLC's 32 bit integers).  some = FALSE is   *)
(*    null.                                                                *)
(*  - File names are the numbers 1..MaxFiles; their lexicographic sort is  *)
(*    the numeric order.                                                   *)
(*  - Writes to the state file and to documents succeed (saveState's catch *)
(*    branch is not exercised).                                            *)
(***************************************************************************)
EXTENDS Integers, Sequences, FiniteSets, TLC

\* ------------------------------------------------------------------ bounds

\* Number of file names that can appear in docs/.
MaxFiles == 3

\* ------------------------------------------------------- program constants

\* ONE_MONTH_MS = 30 * 24 * 60 * 60 * 1000: the 30 and the day in ms.
ONE_MONTH_DAYS == 30
MS_PER_DAY == 86400000
MS_PER_HOUR == MS_PER_DAY \div 24

\* ---------------------------------------------------------------- calendar

\* Days since 1970-01-01 of the proleptic Gregorian date y-m-d.  Linear in d,
\* as the engine's MakeDay is: a day past the month's end rolls over.
DaysFromCivil(y, m, d) ==
    LET yy  == IF m <= 2 THEN y - 1 ELSE y
        era == yy \div 400
        yoe == yy - era * 400
        mp  == IF m > 2 THEN m - 3 ELSE m + 9
        doy == (153 * mp + 2) \div 5 + d - 1
        doe == yoe * 365 + yoe \div 4 - yoe \div 100 + doy
    IN  era * 146097 + doe - 719468

\* The date <<y, m, d>> of day number z.
CivilFromDays(z) ==
    LET zz  == z + 719468
        era == zz \div 146097
        doe == zz - era * 146097
        yoe == (doe - doe \div 1460 + doe \div 36524 - doe \div 146096) \div 365
        doy == doe - (365 * yoe + yoe \div 4 - yoe \div 100)
        mp  == (5 * doy + 2) \div 153
        d   == doy - (153 * mp + 2) \div 5 + 1
        m   == IF mp < 10 THEN mp + 3 ELSE mp - 9
        y   == yoe + era * 400
    IN  << IF m <= 2 THEN y + 1 ELSE y, m, d >>

NullDate == [some |-> FALSE, day |-> 0, ms |-> 0]

MkDate(day, ms) == [some |-> TRUE, day |-> day, ms |-> ms]

\* new Date("yyyy-mm-dd"): a date-only ISO string is UTC midnight; a month
\* outside 1..12 or a day outside 1..31 is an Invalid Date (null here, the
\* caller maps NaN to null at once); a day 29..31 past the month's end is
\* accepted and rolls over into the next month.
NewDateFromString(lit) ==
    IF lit[2] \notin 1..12 \/ lit[3] \notin 1..31
    THEN NullDate
    ELSE MkDate(DaysFromCivil(lit[1], lit[2], lit[3]), 0)

\* The day number of a Date on the local calendar, tz hours east of UTC.
LocalDay(date, tz) ==
    LET t == date.ms + tz * MS_PER_HOUR
    IN  IF t < 0 THEN date.day - 1
        ELSE IF t >= MS_PER_DAY THEN date.day + 1
        ELSE date.day

\* <<getFullYear(), getMonth() + 1, getDate()>>
LocalCivil(date, tz) == CivilFromDays(LocalDay(date, tz))

\* formatDate(date): the yyyy-mm-dd literal of the local calendar date.
formatDate(date, tz) == LocalCivil(date, tz)

\* ------------------------------------------------------------------- lines

NoLit == << >>

MarkerLine(lit, rest) == [k |-> "marker", key |-> "", lit |-> lit, txt |-> rest]
TextLine(s) == [k |-> "text", key |-> "", lit |-> NoLit, txt |-> s]
BlankLine == [k |-> "blank", key |-> "", lit |-> NoLit, txt |-> ""]
DelimLine == [k |-> "delim", key |-> "", lit |-> NoLit, txt |-> ""]
KvLine(key, lit, s) == [k |-> "kv", key |-> key, lit |-> lit, txt |-> s]

\* /^reviewed at \d{4}-\d{2}-\d{2}/m : the first line, anywhere in the
\* content, that begins with the marker; 0 when no line does.
FirstMarker(content) ==
    LET hits == {i \in 1..Len(content) : content[i].k = "marker"}
    IN  IF hits = {} THEN 0
        ELSE CHOOSE i \in hits : \A j \in hits : i <= j

\* ------------------------------------------------------------- review date

\* The parsed date returned without reading it back.
getReviewDate_NoReadBack(content, tz) ==
    LET i == FirstMarker(content)
    IN  IF i = 0 THEN NullDate
        ELSE NewDateFromString(content[i].lit)

\* getReviewDate(content): the date of the first marker line, when the
\* literal parses and the parsed date reads back (in local time) as the same
\* year, month and day; null otherwise.
getReviewDate(content, tz) ==
    LET i == FirstMarker(content)
    IN  IF i = 0 THEN NullDate
        ELSE LET dateString == content[i].lit
                 date == NewDateFromString(dateString)
             IN  IF ~date.some THEN NullDate
                 ELSE IF LocalCivil(date, tz) # dateString THEN NullDate
                 ELSE date

\* now - reviewDate > ONE_MONTH_MS, on (day, ms) pairs: both ms parts lie in
\* [0, MS_PER_DAY), so the sign of the difference from 30 days is decided by
\* the day difference and, at exactly 30 days, by the ms difference.
TimeDiffExceedsMonth(now, reviewDate) ==
    LET dd == now.day - reviewDate.day - ONE_MONTH_DAYS
        dm == now.ms - reviewDate.ms
    IN  \/ dd >= 1
        \/ dd = 0 /\ dm > 0

\* The comparison with the window taken as >=.
needsReview_AtLeast(reviewDate, now) ==
    IF ~reviewDate.some THEN TRUE
    ELSE \/ now.day - reviewDate.day - ONE_MONTH_DAYS >= 1
         \/ /\ now.day - reviewDate.day - ONE_MONTH_DAYS = 0
            /\ now.ms - reviewDate.ms >= 0

\* needsReview(reviewDate), with the clock's reading passed in.
needsReview(reviewDate, now) ==
    IF ~reviewDate.some THEN TRUE
    ELSE TimeDiffExceedsMonth(now, reviewDate)

\* updateReviewDate(content, newDate): the first marker line gets the new
\* literal (the rest of that line and every other line are kept); without a
\* marker line the marker and an empty line are put before the content.
updateReviewDate(content, newDate, tz) ==
    LET dateString == formatDate(newDate, tz)
        i == FirstMarker(content)
    IN  IF i # 0
        THEN [content EXCEPT ![i] = MarkerLine(dateString, content[i].txt)]
        ELSE << MarkerLine(dateString, ""), BlankLine >> \o content

\* ------------------------------------------------------------ front matter

\* The value of a field: a date literal or other text.
FieldValue(line) == [lit |-> line.lit, txt |-> line.txt]

\* /^---\n([\s\S]*?)\n---/ : the first line is '---' and a later line, not
\* the second (the line break before it belongs to the first '---'), begins
\* with '---'.  The position of the first such line; 0 when the expression
\* does not match.
FrontMatterEnd(content) ==
    LET ends == {j \in 3..Len(content) : content[j].k = "delim"}
    IN  IF Len(content) >= 1 /\ content[1].k = "delim" /\ ends # {}
        THEN CHOOSE j \in ends : \A i \in ends : j <= i
        ELSE 0

\* parseFrontMatter(content): the lines of the matched text that hold a
\* colon after their first character give the fields, a later line of a key
\* replacing an earlier one; hasFrontMatter is whether the expression
\* matched.
parseFrontMatter(content) ==
    LET end == FrontMatterEnd(content)
        pairs == {i \in 2..(end - 1) : content[i].k = "kv"}
        keys == {content[i].key : i \in pairs}
        last(key) == CHOOSE i \in pairs :
                        /\ content[i].key = key
                        /\ \A j \in pairs : content[j].key = key => j <= i
    IN  IF end # 0
        THEN [frontMatter |-> [key \in keys |-> FieldValue(content[last(key)])],
              hasFrontMatter |-> TRUE]
        ELSE [frontMatter |-> [key \in {} |-> FieldValue(BlankLine)],
              hasFrontMatter |-> FALSE]

\* The verdict of the Verifier's loop body on a file that exists: the
\* first of the three checks that fails, "ok" when none does.  !value is
\* true for a missing field and for an empty value; values are compared as
\* strings.
NoProblem == "ok"

\* The comparison with today's date left out.
checkFile_NoDateCompare(text, today) ==
    LET parsed == parseFrontMatter(text)
    IN  IF ~parsed.hasFrontMatter THEN "MissingFrontMatter"
        ELSE IF \/ "reviewed_at" \notin DOMAIN parsed.frontMatter
                \/ parsed.frontMatter["reviewed_at"] = FieldValue(BlankLine)
        THEN "MissingReviewedAt"
        ELSE NoProblem

checkFile(text, today) ==
    LET parsed == parseFrontMatter(text)
    IN  IF ~parsed.hasFrontMatter THEN "MissingFrontMatter"
        ELSE IF \/ "reviewed_at" \notin DOMAIN parsed.frontMatter
                \/ parsed.frontMatter["reviewed_at"] = FieldValue(BlankLine)
        THEN "MissingReviewedAt"
        ELSE IF parsed.frontMatter["reviewed_at"] # [lit |-> today, txt |-> ""]
        THEN "StaleOrMismatchedDate"
        ELSE NoProblem

\* ---------------------------------------------------------------- rotation

\* JavaScript's %: the result takes the sign of the dividend.
JsRem(a, n) == IF a >= 0 THEN a % n ELSE 0 - ((0 - a) % n)

\* The successor taken without the wraparound.
selectNextFile_NoWrap(files, lastIndex) ==
    IF Len(files) = 0 THEN [nul |-> TRUE, file |-> 0, index |-> 0]
    ELSE [nul |-> FALSE,
          file |-> IF lastIndex + 1 \in 0..(Len(files) - 1)
                   THEN files[lastIndex + 2] ELSE 0,
          index |-> lastIndex + 1]

\* selectNextFile(files, lastIndex), lastIndex an integer.  files is the
\* sorted listing, 1-indexed here (source index i is position i + 1).  The
\* result is null for an empty listing; otherwise [file, index], where file
\* is 0 (undefined) when index is not an element index of the listing.
NullSelection == [nul |-> TRUE, file |-> 0, index |-> 0]

selectNextFile(files, lastIndex) ==
    IF Len(files) = 0 THEN NullSelection
    ELSE LET nextIndex == JsRem(lastIndex + 1, Len(files))
         IN  [nul |-> FALSE,
              file |-> IF nextIndex \in 0..(Len(files) - 1)
                       THEN files[nextIndex + 1] ELSE 0,
              index |-> nextIndex]

\* -------------------------------------------------------------- state file

\* What STATE_FILE holds: nothing (absent), bytes that cannot be read or that
\* JSON.parse rejects (garbage), the JSON text null, or a JSON object, whose
\* lastIndex is an integer (hasInt) or is missing or not a number.
AbsentFile == [kind |-> "absent", hasInt |-> FALSE, lastIndex |-> 0]
GarbageFile == [kind |-> "garbage", hasInt |-> FALSE, lastIndex |-> 0]
JsonNullFile == [kind |-> "null", hasInt |-> FALSE, lastIndex |-> 0]
NoIndexFile == [kind |-> "object", hasInt |-> FALSE, lastIndex |-> 0]
IndexFile(n) == [kind |-> "object", hasInt |-> TRUE, lastIndex |-> n]

\* loadState(): the parsed file; { lastIndex: -1 } when the file is absent
\* or reading or parsing it throws.  The state object is [isNull, hasInt,
\* lastIndex].
loadState(file) ==
    IF file.kind \in {"absent", "garbage"}
    THEN [isNull |-> FALSE, hasInt |-> TRUE, lastIndex |-> 0 - 1]
    ELSE [isNull |-> file.kind = "null", hasInt |-> file.hasInt,
          lastIndex |-> file.lastIndex]

\* The index after the one reached written instead.
saveState_OffByOne(state) == IndexFile(state.lastIndex + 1)

\* saveState(state): JSON.stringify of the state object.
saveState(state) == IndexFile(state.lastIndex)

\* ---------------------------------------------------------------- assignee

\* TEAM_MEMBERS is a sequence of tokens: "," separates entries, " " is white
\* space, anything else is (part of) a handle.

\* teamMembers.split(','): the entries, each a sequence of tokens.
RECURSIVE SplitComma(_)
SplitComma(str) ==
    LET commas == {i \in 1..Len(str) : str[i] = ","}
    IN  IF commas = {} THEN << str >>
        ELSE LET c == CHOOSE i \in commas : \A j \in commas : i <= j
             IN  << SubSeq(str, 1, c - 1) >>
                 \o SplitComma(SubSeq(str, c + 1, Len(str)))

\* m.trim()
RECURSIVE Trim(_)
Trim(m) ==
    IF m = << >> THEN m
    ELSE IF Head(m) = " " THEN Trim(Tail(m))
    ELSE IF m[Len(m)] = " " THEN Trim(SubSeq(m, 1, Len(m) - 1))
    ELSE m

\* .filter(m => m.trim())
RECURSIVE FilterNonBlank(_)
FilterNonBlank(ms) ==
    IF ms = << >> THEN << >>
    ELSE IF Trim(Head(ms)) # << >>
         THEN << Head(ms) >> \o FilterNonBlank(Tail(ms))
         ELSE FilterNonBlank(Tail(ms))

\* The entry returned as it stands in the list, white space included.
selectRandomAssignee_NoTrim(teamMembers) ==
    LET members == FilterNonBlank(SplitComma(teamMembers))
    IN  {members[randomIndex + 1] : randomIndex \in 0..(Len(members) - 1)}

\* selectRandomAssignee(teamMembers): the set of values a call can return
\* (one per value of randomIndex); the empty set when it throws 'No team
\* members available'.
selectRandomAssignee(teamMembers) ==
    LET members == FilterNonBlank(SplitComma(teamMembers))
    IN  {Trim(members[randomIndex + 1]) : randomIndex \in 0..(Len(members) - 1)}

\* ---------------------------------------------------------- duplicate guard

\* The comparison of paths never matching (a path of another form).
hasExistingPR_NeverMatches(filePath, queryOk, prs) == FALSE

\* A failed query taken for an open PR on the document.
hasExistingPR_FailClosed(filePath, queryOk, prs) ==
    IF queryOk THEN \E pr \in prs : filePath \in pr
    ELSE TRUE

\* hasExistingPR(filePath): prs is the answer of 'gh pr list' (the set of
\* open PRs, each the set of paths it touches); a failed query gives false.
hasExistingPR(filePath, queryOk, prs) ==
    IF queryOk THEN \E pr \in prs : filePath \in pr
    ELSE FALSE

\* ------------------------------------------------------------------- state

Names == 1..MaxFiles
Procs == {1, 2}

\* An entry of docs/ under a name ending in .md: none, a directory (listed,
\* but reading it throws), or a document.
NoEntry == [kind |-> "none", content |-> << >>]
DirEntry == [kind |-> "dir", content |-> << >>]
DocEntry(c) == [kind |-> "doc", content |-> c]

VARIABLES
    disk,         \* docs/: name -> entry
    stateFile,    \* STATE_FILE
    prs,          \* the platform's open PRs, each the set of names it touches
    now,          \* the clock (new Date())
    tz,           \* the runner's offset from UTC, in hours
    pc,           \* per invocation: where main() is
    exit,         \* per invocation: -1 running, 0 returned, 1 process.exit(1)
    files,        \* per invocation: the listing of getDocFiles()
    state,        \* per invocation: the state object
    checkedCount, \* per invocation
    selection,    \* per invocation: the candidate being processed
    content,      \* per invocation: the candidate's content as read
    out,          \* per invocation: the lines appended to GITHUB_OUTPUT
    hist,         \* per invocation: what it has done so far (history)
    probe         \* a call of one function on its own: arguments and result

vars == << disk, stateFile, prs, now, tz, pc, exit, files, state,
           checkedCount, selection, content, out, hist, probe >>

world == << disk, stateFile, prs, now, tz >>

\* The history of an invocation: the world it started in, the outcome of
\* each candidate it passed or found, the documents it read and wrote, the
\* number of times it wrote the state file, whether it got the listing and
\* loaded the state, the cursor it loaded and the TEAM_MEMBERS value it read.
NoHist ==
    [disk0 |-> << >>, stateFile0 |-> AbsentFile, prs0 |-> {},
     visits |-> << >>, reads |-> << >>, writes |-> << >>, saves |-> 0,
     listed |-> FALSE, loaded |-> FALSE, cursor0 |-> 0, pool |-> << >>]

NoState == [isNull |-> FALSE, hasInt |-> FALSE, lastIndex |-> 0]

\* One line of GITHUB_OUTPUT.
Output(name, flag, path, who) ==
    [name |-> name, flag |-> flag, path |-> path, who |-> who]

\* setOutput(name, value)
setOutput(o, line) == Append(o, line)

\* getDocFiles(): the names present in docs/, sorted.
RECURSIVE SortedSeq(_)
SortedSeq(S) ==
    IF S = {} THEN << >>
    ELSE LET least == CHOOSE x \in S : \A y \in S : x <= y
         IN  << least >> \o SortedSeq(S \ {least})

getDocFiles(d) == SortedSeq({f \in DOMAIN d : d[f].kind # "none"})

\* ------------------------------------------------------------ sample inputs

Title == TextLine("# Title")

\* A document without any review line, one reviewed long ago, one reviewed
\* today (the clock reads 2025-03-01).
DocNoMeta == << Title >>
DocOld == << MarkerLine(<< 2025, 1, 15 >>, ""), BlankLine, Title >>
DocToday == << MarkerLine(<< 2025, 3, 1 >>, ""), BlankLine, Title >>

InitEntries ==
    {NoEntry, DirEntry, DocEntry(DocNoMeta), DocEntry(DocOld),
     DocEntry(DocToday)}

\* 2025-03-01, 12:00 UTC.
Noon == MkDate(DaysFromCivil(2025, 3, 1), 12 * MS_PER_HOUR)

InitStateFiles == {AbsentFile, GarbageFile, JsonNullFile, NoIndexFile}

\* TEAM_MEMBERS values: unset or empty, blank entries only, two handles
\* with white space around them and a blank entry between.
TeamPools ==
    { << >>,
      << " ", ",", " " >>,
      << " ", "user1", " ", ",", " ", ",", "user2", " " >> }

\* No function is being called on its own.
NoProbe == [fn |-> "none"]

\* --------------------------------------------------------------------- Init

Init ==
    /\ disk \in [Names -> InitEntries]
    /\ stateFile \in InitStateFiles
    /\ prs = {}
    /\ now = Noon
    /\ tz = 0
    /\ pc = [p \in Procs |-> "idle"]
    /\ exit = [p \in Procs |-> 0 - 1]
    /\ files = [p \in Procs |-> << >>]
    /\ state = [p \in Procs |-> NoState]
    /\ checkedCount = [p \in Procs |-> 0]
    /\ selection = [p \in Procs |-> NullSelection]
    /\ content = [p \in Procs |-> << >>]
    /\ out = [p \in Procs |-> << >>]
    /\ hist = [p \in Procs |-> NoHist]
    /\ probe = NoProbe

\* ------------------------------------------------------------------- main()

\* The catch of main(): console.error, process.exit(1).
Fatal(p) ==
    /\ pc' = [pc EXCEPT ![p] = "done"]
    /\ exit' = [exit EXCEPT ![p] = 1]

\* A return from main().
Return(p) ==
    /\ pc' = [pc EXCEPT ![p] = "done"]
    /\ exit' = [exit EXCEPT ![p] = 0]

\* The empty listing raised as an error.
NoDocumentsThrows(p) ==
    /\ out' = out
    /\ Fatal(p)

\* 'No markdown files found in docs directory': needs_review=false, return.
NoDocuments(p) ==
    /\ out' = [out EXCEPT ![p] =
                 setOutput(@, Output("needs_review", FALSE, 0, << >>))]
    /\ Return(p)

\* The scheduler starts main(): getDocFiles(), and the early return on an
\* empty listing.  readdirSync throws when docs/ cannot be listed.
Start(p) ==
    /\ pc[p] = "idle"
    /\ \E listOk \in BOOLEAN :
         /\ hist' = [hist EXCEPT ![p] =
                       [NoHist EXCEPT !.disk0 = disk, !.stateFile0 = stateFile,
                                      !.prs0 = prs, !.listed = listOk]]
         /\ IF ~listOk
            THEN /\ Fatal(p)
                 /\ UNCHANGED << files, out >>
            ELSE LET listing == getDocFiles(disk)
                 IN  /\ files' = [files EXCEPT ![p] = listing]
                     /\ IF Len(listing) = 0
                        THEN NoDocuments(p)
                        ELSE /\ pc' = [pc EXCEPT ![p] = "load"]
                             /\ exit' = exit
                             /\ out' = out
    /\ UNCHANGED << world, state, checkedCount, selection, content, probe >>

\* loadState(), the log line that reads state.lastIndex (a TypeError when
\* the file held null), startIndex and checkedCount.
LoadState(p) ==
    /\ pc[p] = "load"
    /\ LET loaded == loadState(stateFile)
       IN  /\ state' = [state EXCEPT ![p] = loaded]
           /\ hist' = [hist EXCEPT ![p].loaded = TRUE,
                                   ![p].cursor0 = loaded.lastIndex]
           /\ IF loaded.isNull
              THEN Fatal(p)
              ELSE /\ pc' = [pc EXCEPT ![p] = "scan"]
                   /\ exit' = exit
    /\ checkedCount' = [checkedCount EXCEPT ![p] = 0]
    /\ UNCHANGED << world, files, selection, content, out, probe >>

\* selectNextFile(files, state.lastIndex) as main() calls it: a lastIndex
\* that is not an integer gives index NaN and file undefined.
SelectFromState(fs, st) ==
    IF st.hasInt THEN selectNextFile(fs, st.lastIndex)
    ELSE [nul |-> Len(fs) = 0, file |-> 0, index |-> 0]

\* One pass of the while loop up to the staleness decision: select, read,
\* getReviewDate, needsReview, and the else branch for a fresh document.
\* path.join throws on an undefined file; readFileSync throws on an entry
\* that is not a readable file.
Scan(p) ==
    /\ pc[p] = "scan"
    /\ checkedCount[p] < Len(files[p])
    /\ LET sel == SelectFromState(files[p], state[p])
       IN  /\ selection' = [selection EXCEPT ![p] = sel]
           /\ IF sel.nul
              THEN /\ out' = [out EXCEPT ![p] =
                          setOutput(@, Output("needs_review", FALSE, 0, << >>))]
                   /\ Return(p)
                   /\ UNCHANGED << state, checkedCount, content, hist >>
              ELSE IF sel.file = 0
              THEN /\ Fatal(p)
                   /\ UNCHANGED << state, checkedCount, content, out, hist >>
              ELSE IF disk[sel.file].kind # "doc"
              THEN /\ Fatal(p)
                   /\ hist' = [hist EXCEPT ![p].reads = Append(@, sel.file)]
                   /\ UNCHANGED << state, checkedCount, content, out >>
              ELSE LET text == disk[sel.file].content
                       reviewDate == getReviewDate(text, tz)
                   IN  /\ content' = [content EXCEPT ![p] = text]
                       /\ out' = out
                       /\ exit' = exit
                       /\ IF needsReview(reviewDate, now)
                          THEN /\ pc' = [pc EXCEPT ![p] = "guard"]
                               /\ hist' = [hist EXCEPT ![p].reads = Append(@, sel.file)]
                               /\ UNCHANGED << state, checkedCount >>
                          ELSE /\ pc' = pc
                               /\ state' = [state EXCEPT ![p].lastIndex = sel.index]
                               /\ checkedCount' = [checkedCount EXCEPT ![p] = @ + 1]
                               /\ hist' = [hist EXCEPT
                                      ![p].reads = Append(@, sel.file),
                                      ![p].visits = Append(@,
                                          [index |-> sel.index, file |-> sel.file,
                                           verdict |-> "fresh", queryOk |-> TRUE])]
    /\ UNCHANGED << world, files, probe >>

\* The skip of a covered candidate without checkedCount++.
Guard_NoCount(p) ==
    /\ pc[p] = "guard"
    /\ \E queryOk \in BOOLEAN :
         LET sel == selection[p]
             dup == hasExistingPR(sel.file, queryOk, prs)
         IN  /\ hist' = [hist EXCEPT ![p].visits =
                             IF Len(@) > 2 * MaxFiles THEN @
                             ELSE Append(@,
                                    [index |-> sel.index, file |-> sel.file,
                                     verdict |-> IF dup THEN "guarded" ELSE "found",
                                     queryOk |-> queryOk])]
             /\ IF dup
                THEN /\ state' = [state EXCEPT ![p].lastIndex = sel.index]
                     /\ pc' = [pc EXCEPT ![p] = "scan"]
                     /\ UNCHANGED checkedCount
                ELSE /\ pc' = [pc EXCEPT ![p] = "write"]
                     /\ UNCHANGED << state, checkedCount >>
    /\ UNCHANGED << world, exit, files, selection, content, out, probe >>

\* The stale branch up to the skip: hasExistingPR, and on true the advance
\* of the cursor and continue.  The query may fail.
Guard(p) ==
    /\ pc[p] = "guard"
    /\ \E queryOk \in BOOLEAN :
         LET sel == selection[p]
             dup == hasExistingPR(sel.file, queryOk, prs)
         IN  /\ hist' = [hist EXCEPT ![p].visits = Append(@,
                             [index |-> sel.index, file |-> sel.file,
                              verdict |-> IF dup THEN "guarded" ELSE "found",
                              queryOk |-> queryOk])]
             /\ IF dup
                THEN /\ state' = [state EXCEPT ![p].lastIndex = sel.index]
                     /\ checkedCount' = [checkedCount EXCEPT ![p] = @ + 1]
                     /\ pc' = [pc EXCEPT ![p] = "scan"]
                ELSE /\ pc' = [pc EXCEPT ![p] = "write"]
                     /\ UNCHANGED << state, checkedCount >>
    /\ UNCHANGED << world, exit, files, selection, content, out, probe >>

\* updateReviewDate and writeFileSync of the candidate.
WriteDoc(p) ==
    /\ pc[p] = "write"
    /\ LET today == now
           updatedContent == updateReviewDate(content[p], today, tz)
       IN  disk' = [disk EXCEPT ![selection[p].file] = DocEntry(updatedContent)]
    /\ hist' = [hist EXCEPT ![p].writes = Append(@, selection[p].file)]
    /\ pc' = [pc EXCEPT ![p] = "assign"]
    /\ UNCHANGED << stateFile, prs, now, tz, exit, files, state, checkedCount,
                    selection, content, out, probe >>

\* The return after a found document forgotten: the loop goes on.
FoundContinue(p) ==
    /\ pc' = [pc EXCEPT ![p] = "scan"]
    /\ exit' = exit

\* 'return; // Found a document that needs review, exit'
FoundReturn(p) == Return(p)

\* The rest of the stale branch: TEAM_MEMBERS, selectRandomAssignee, the
\* three outputs, the cursor, saveState, return.
Assign(p) ==
    /\ pc[p] = "assign"
    /\ \E teamMembers \in TeamPools :
         /\ hist' = [hist EXCEPT ![p].pool = teamMembers,
                                 ![p].saves = IF selectRandomAssignee(teamMembers) = {}
                                              THEN @ ELSE @ + 1]
         /\ IF teamMembers = << >> \/ selectRandomAssignee(teamMembers) = {}
            THEN /\ Fatal(p)
                 /\ UNCHANGED << stateFile, state, out >>
            ELSE \E assignee \in selectRandomAssignee(teamMembers) :
                   LET sel == selection[p]
                       st == [state[p] EXCEPT !.lastIndex = sel.index]
                       o1 == setOutput(out[p], Output("needs_review", TRUE, 0, << >>))
                       o2 == setOutput(o1, Output("file_path", FALSE, sel.file, << >>))
                       o3 == setOutput(o2, Output("assignee", FALSE, 0, assignee))
                   IN  /\ out' = [out EXCEPT ![p] = o3]
                       /\ state' = [state EXCEPT ![p] = st]
                       /\ stateFile' = saveState(st)
                       /\ FoundReturn(p)
    /\ UNCHANGED << disk, prs, now, tz, files, checkedCount, selection, content,
                    probe >>

\* The loop ends with every document checked: needs_review=false, saveState.
Exhausted(p) ==
    /\ pc[p] = "scan"
    /\ ~(checkedCount[p] < Len(files[p]))
    /\ out' = [out EXCEPT ![p] =
                 setOutput(@, Output("needs_review", FALSE, 0, << >>))]
    /\ stateFile' = saveState(state[p])
    /\ hist' = [hist EXCEPT ![p].saves = @ + 1]
    /\ Return(p)
    /\ UNCHANGED << disk, prs, now, tz, files, state, checkedCount, selection,
                    content, probe >>

\* The process is gone with everything it held in memory.
Gone(p) ==
    /\ pc[p] = "done"
    /\ pc' = [pc EXCEPT ![p] = "idle"]
    /\ exit' = [exit EXCEPT ![p] = 0 - 1]
    /\ files' = [files EXCEPT ![p] = << >>]
    /\ state' = [state EXCEPT ![p] = NoState]
    /\ checkedCount' = [checkedCount EXCEPT ![p] = 0]
    /\ selection' = [selection EXCEPT ![p] = NullSelection]
    /\ content' = [content EXCEPT ![p] = << >>]
    /\ out' = [out EXCEPT ![p] = << >>]
    /\ hist' = [hist EXCEPT ![p] = NoHist]

\* The process is gone; the next trigger starts a new one.
Exit(p) ==
    /\ Gone(p)
    /\ UNCHANGED << world, probe >>

\* -------------------------------------------------------------- environment

Quiet == \A p \in Procs : pc[p] = "idle"

\* The platform: a PR touching one document is opened, or closed or merged.
OpenPR(f) ==
    /\ Quiet
    /\ {f} \notin prs
    /\ prs' = prs \cup {{f}}
    /\ UNCHANGED << disk, stateFile, now, tz, pc, exit, files, state,
                    checkedCount, selection, content, out, hist, probe >>

ClosePR(f) ==
    /\ Quiet
    /\ {f} \in prs
    /\ prs' = prs \ {{f}}
    /\ UNCHANGED << disk, stateFile, now, tz, pc, exit, files, state,
                    checkedCount, selection, content, out, hist, probe >>

\* The repository: an entry appears in docs/, or is removed.
AddFile(f) ==
    /\ Quiet
    /\ disk[f].kind = "none"
    /\ \E e \in InitEntries \ {NoEntry} : disk' = [disk EXCEPT ![f] = e]
    /\ UNCHANGED << stateFile, prs, now, tz, pc, exit, files, state,
                    checkedCount, selection, content, out, hist, probe >>

RemoveFile(f) ==
    /\ Quiet
    /\ disk[f].kind # "none"
    /\ disk' = [disk EXCEPT ![f] = NoEntry]
    /\ UNCHANGED << stateFile, prs, now, tz, pc, exit, files, state,
                    checkedCount, selection, content, out, hist, probe >>

\* ------------------------------------------------- selectNextFile by itself

\* Everything but probe at rest.
Parked ==
    /\ disk = [f \in Names |-> NoEntry]
    /\ stateFile = AbsentFile
    /\ prs = {}
    /\ now = Noon
    /\ tz = 0
    /\ pc = [p \in Procs |-> "idle"]
    /\ exit = [p \in Procs |-> 0 - 1]
    /\ files = [p \in Procs |-> << >>]
    /\ state = [p \in Procs |-> NoState]
    /\ checkedCount = [p \in Procs |-> 0]
    /\ selection = [p \in Procs |-> NullSelection]
    /\ content = [p \in Procs |-> << >>]
    /\ out = [p \in Procs |-> << >>]
    /\ hist = [p \in Procs |-> NoHist]

\* The listings: every set of names, sorted.
Listings == {SortedSeq(S) : S \in SUBSET Names}

\* The cursors tried: from below -1 to beyond the longest listing.
LastIndexes == (0 - MaxFiles - 1)..(2 * MaxFiles)

InitSelect ==
    /\ Parked
    /\ \E fs \in Listings, li \in LastIndexes :
          probe = [fn |-> "selectNextFile", files |-> fs, lastIndex |-> li,
                   applied |-> FALSE, result |-> NullSelection]

ApplySelect ==
    /\ probe.fn = "selectNextFile"
    /\ ~probe.applied
    /\ probe' = [probe EXCEPT !.applied = TRUE,
                              !.result = selectNextFile(probe.files, probe.lastIndex)]
    /\ UNCHANGED << disk, stateFile, prs, now, tz, pc, exit, files, state,
                    checkedCount, selection, content, out, hist >>

NextSelect == ApplySelect

SpecSelect == InitSelect /\ [][NextSelect]_vars

\* ---------------------------------------------------- needsReview by itself

\* The review dates tried lie up to MaxDayDrift days before and after the
\* day ONE_MONTH_DAYS before the clock's.
MaxDayDrift == 2

\* Times of day: midnight, one millisecond past it, noon, the last
\* millisecond of the day.
TimesOfDay == {0, 1, 12 * MS_PER_HOUR, MS_PER_DAY - 1}

Clocks == {MkDate(Noon.day, ms) : ms \in TimesOfDay}

ReviewDates ==
    {NullDate} \cup
    {MkDate(Noon.day - ONE_MONTH_DAYS + d, ms) :
        d \in (0 - MaxDayDrift)..MaxDayDrift, ms \in TimesOfDay}

InitStale ==
    /\ Parked
    /\ \E rd \in ReviewDates, clock \in Clocks :
          probe = [fn |-> "needsReview", reviewDate |-> rd, now |-> clock,
                   applied |-> FALSE, result |-> FALSE]

ApplyStale ==
    /\ probe.fn = "needsReview"
    /\ ~probe.applied
    /\ probe' = [probe EXCEPT !.applied = TRUE,
                              !.result = needsReview(probe.reviewDate, probe.now)]
    /\ UNCHANGED << disk, stateFile, prs, now, tz, pc, exit, files, state,
                    checkedCount, selection, content, out, hist >>

NextStale == ApplyStale

SpecStale == InitStale /\ [][NextStale]_vars

\* ------------------------------- getReviewDate and updateReviewDate by themselves

\* Date literals: three calendar dates (one a leap day), a month 13 with a
\* day 45, a month 0, and days 29 to 31 past the end of their month.
RealLiterals == {<< 2025, 1, 15 >>, << 2025, 3, 1 >>, << 2024, 2, 29 >>}

ImpossibleLiterals ==
    {<< 2025, 13, 45 >>, << 2025, 0, 10 >>, << 2025, 2, 29 >>,
     << 2025, 2, 30 >>, << 2025, 4, 31 >>}

Literals == RealLiterals \cup ImpossibleLiterals

Body == << BlankLine, Title >>

\* Documents: without any review line; with a line 'reviewed at not-a-date';
\* with the marker as first line; with the marker below the title; with a
\* front-matter block that carries reviewed_at alone, reviewed_at between
\* two other fields, reviewed_at with a value that is not a date, or no
\* reviewed_at.
CodecContents ==
    {<< Title >>,
     << TextLine("reviewed at not-a-date") >> \o Body,
     << DelimLine, KvLine("title", NoLit, "Doc"), DelimLine >> \o Body,
     << DelimLine, KvLine("reviewed_at", NoLit, "not-a-date"), DelimLine >>
        \o Body}
    \cup {<< MarkerLine(lit, "") >> \o Body : lit \in Literals}
    \cup {<< Title, BlankLine, MarkerLine(lit, " by hand") >> :
             lit \in RealLiterals}
    \cup {<< DelimLine, KvLine("reviewed_at", lit, ""), DelimLine >> \o Body :
             lit \in Literals}
    \cup {<< DelimLine, KvLine("title", NoLit, "Doc"),
             KvLine("reviewed_at", lit, ""), KvLine("author", NoLit, "Ann"),
             DelimLine >> \o Body : lit \in RealLiterals}

\* The runner's offsets from UTC, in hours.
TimeZones == {0 - 5, 0, 9}

\* The dates written: 2025-03-01 and 2024-12-31 (UTC), early and late in
\* the day.
WriteDates ==
    {MkDate(DaysFromCivil(lit[1], lit[2], lit[3]), ms) :
        lit \in {<< 2025, 3, 1 >>, << 2024, 12, 31 >>},
        ms \in {MS_PER_HOUR, 23 * MS_PER_HOUR}}

InitCodec ==
    /\ Parked
    /\ \E c \in CodecContents, d \in WriteDates, z \in TimeZones :
          probe = [fn |-> "codec", content |-> c, newDate |-> d, tz |-> z,
                   stage |-> 0, read |-> NullDate, written |-> << >>,
                   readBack |-> NullDate]

\* getReviewDate(content)
ReadDate ==
    /\ probe.fn = "codec" /\ probe.stage = 0
    /\ probe' = [probe EXCEPT !.stage = 1,
                              !.read = getReviewDate(probe.content, probe.tz)]
    /\ UNCHANGED << disk, stateFile, prs, now, tz, pc, exit, files, state,
                    checkedCount, selection, content, out, hist >>

\* updateReviewDate(content, newDate)
WriteDate ==
    /\ probe.fn = "codec" /\ probe.stage = 1
    /\ probe' = [probe EXCEPT !.stage = 2,
                              !.written = updateReviewDate(probe.content,
                                              probe.newDate, probe.tz)]
    /\ UNCHANGED << disk, stateFile, prs, now, tz, pc, exit, files, state,
                    checkedCount, selection, content, out, hist >>

\* getReviewDate(updateReviewDate(content, newDate))
ReadBack ==
    /\ probe.fn = "codec" /\ probe.stage = 2
    /\ probe' = [probe EXCEPT !.stage = 3,
                              !.readBack = getReviewDate(probe.written, probe.tz)]
    /\ UNCHANGED << disk, stateFile, prs, now, tz, pc, exit, files, state,
                    checkedCount, selection, content, out, hist >>

NextCodec == ReadDate \/ WriteDate \/ ReadBack

SpecCodec == InitCodec /\ [][NextCodec]_vars

\* ------------------------------------------------ parseFrontMatter by itself

\* What stands before the body: nothing, a review line, or '---' lines with
\* nothing, an empty line, text without a colon, or fields between them; a
\* block that is not closed.
ParseHeaders ==
    {<< >>,
     << MarkerLine(<< 2025, 3, 1 >>, "") >>,
     << DelimLine, DelimLine >>,
     << DelimLine, BlankLine, DelimLine >>,
     << DelimLine, TextLine("just text"), DelimLine >>,
     << DelimLine, KvLine("reviewed_at", << 2025, 3, 1 >>, "") >>,
     << DelimLine, KvLine("author", NoLit, "Ann"),
        KvLine("author", NoLit, "Bob"), DelimLine >>,
     << DelimLine, KvLine("reviewed_at", NoLit, ""), DelimLine >>,
     << DelimLine, KvLine("reviewed_at", NoLit, "not-a-date"), DelimLine >>,
     << DelimLine, KvLine("title", NoLit, "Doc"), DelimLine >>}
    \cup {<< DelimLine, KvLine("reviewed_at", lit, ""), DelimLine >> :
             lit \in Literals}
    \cup {<< DelimLine, KvLine("title", NoLit, "Doc"),
             KvLine("reviewed_at", lit, ""), KvLine("author", NoLit, "Ann"),
             DelimLine >> : lit \in RealLiterals}

\* The body: a title, or a title and a horizontal rule, '---'.
ParseBodies ==
    {<< BlankLine, Title >>,
     << Title >>,
     << BlankLine, Title, DelimLine, TextLine("more") >>}

ParseContents == {h \o b : h \in ParseHeaders, b \in ParseBodies}

NoFrontMatter ==
    [frontMatter |-> [key \in {} |-> FieldValue(BlankLine)],
     hasFrontMatter |-> FALSE]

InitParse ==
    /\ Parked
    /\ \E c \in ParseContents :
          probe = [fn |-> "parseFrontMatter", content |-> c,
                   applied |-> FALSE, result |-> NoFrontMatter]

ApplyParse ==
    /\ probe.fn = "parseFrontMatter"
    /\ ~probe.applied
    /\ probe' = [probe EXCEPT !.applied = TRUE,
                              !.result = parseFrontMatter(probe.content)]
    /\ UNCHANGED << disk, stateFile, prs, now, tz, pc, exit, files, state,
                    checkedCount, selection, content, out, hist >>

NextParse == ApplyParse

SpecParse == InitParse /\ [][NextParse]_vars

\* ------------------------------------------------- check-review-date main()

\* The documents a change can touch: without front matter, with the legacy
\* review line, with a block dated today, dated earlier, without
\* reviewed_at, with an empty reviewed_at, with a value that is no date, and
\* with text only between the delimiters.
VerifierContents ==
    {<< Title >>,
     DocToday,
     << DelimLine, KvLine("reviewed_at", << 2025, 3, 1 >>, ""), DelimLine >>
        \o Body,
     << DelimLine, KvLine("title", NoLit, "Doc"),
        KvLine("reviewed_at", << 2025, 1, 15 >>, ""), DelimLine >> \o Body,
     << DelimLine, KvLine("title", NoLit, "Doc"), DelimLine >> \o Body,
     << DelimLine, KvLine("reviewed_at", NoLit, ""), DelimLine >> \o Body,
     << DelimLine, KvLine("reviewed_at", NoLit, "not-a-date"), DelimLine >>
        \o Body,
     << DelimLine, TextLine("just text"), DelimLine >> \o Body}

VerifierEntries == {NoEntry} \cup {DocEntry(c) : c \in VerifierContents}

\* The Verifier has not run: the working tree and the paths under docs/
\* ending in .md that 'git diff' would name.
InitVerify ==
    /\ Parked
    /\ \E d \in [Names -> VerifierEntries], ch \in SUBSET Names :
          probe = [fn |-> "verifier", docs |-> d, changed |-> ch,
                   pcv |-> "idle", gitOk |-> TRUE, today |-> NoLit,
                   modifiedFiles |-> << >>, i |-> 0, hasErrors |-> FALSE,
                   problems |-> << >>, exit |-> 0 - 1]

\* getModifiedMarkdownFiles(baseBranch): the changed paths, or [] when git
\* fails.
getModifiedMarkdownFiles(gitOk, changed) ==
    IF gitOk THEN SortedSeq(changed) ELSE << >>

\* main() up to the loop: today, the modified files, exit(0) when there are
\* none.
VerifierStart ==
    /\ probe.fn = "verifier" /\ probe.pcv = "idle"
    /\ \E gitOk \in BOOLEAN :
          LET modified == getModifiedMarkdownFiles(gitOk, probe.changed)
          IN  probe' = [probe EXCEPT
                  !.gitOk = gitOk,
                  !.today = formatDate(now, tz),
                  !.modifiedFiles = modified,
                  !.i = 1,
                  !.pcv = IF Len(modified) = 0 THEN "done" ELSE "loop",
                  !.exit = IF Len(modified) = 0 THEN 0 ELSE 0 - 1]
    /\ UNCHANGED << disk, stateFile, prs, now, tz, pc, exit, files, state,
                    checkedCount, selection, content, out, hist >>

\* One pass of the for loop: a deleted file is skipped, a file that fails a
\* check sets hasErrors and gets its line.
VerifierCheck ==
    /\ probe.fn = "verifier" /\ probe.pcv = "loop"
    /\ probe.i <= Len(probe.modifiedFiles)
    /\ LET filePath == probe.modifiedFiles[probe.i]
           entry == probe.docs[filePath]
           verdict == IF entry.kind = "none" THEN NoProblem
                      ELSE checkFile(entry.content, probe.today)
       IN  probe' = [probe EXCEPT
               !.i = @ + 1,
               !.hasErrors = @ \/ verdict # NoProblem,
               !.problems = IF verdict = NoProblem THEN @
                            ELSE Append(@, [path |-> filePath,
                                            reason |-> verdict])]
    /\ UNCHANGED << disk, stateFile, prs, now, tz, pc, exit, files, state,
                    checkedCount, selection, content, out, hist >>

\* After the loop: exit(1) when hasErrors, exit(0) otherwise.
VerifierFinish ==
    /\ probe.fn = "verifier" /\ probe.pcv = "loop"
    /\ probe.i > Len(probe.modifiedFiles)
    /\ probe' = [probe EXCEPT !.pcv = "done",
                              !.exit = IF probe.hasErrors THEN 1 ELSE 0]
    /\ UNCHANGED << disk, stateFile, prs, now, tz, pc, exit, files, state,
                    checkedCount, selection, content, out, hist >>

NextVerify == VerifierStart \/ VerifierCheck \/ VerifierFinish

SpecVerify == InitVerify /\ [][NextVerify]_vars

\* ------------------------------------------------- two invocations at once

\* Nothing stops the scheduler from starting main() while another main() is
\* running on the same checkout: the two processes interleave at their
\* reads and writes of docs/ and of the state file.  probe keeps the
\* documents as they were before either started.
RaceEntries == {DocEntry(DocNoMeta), DocEntry(DocOld), DocEntry(DocToday)}

InitRace ==
    /\ disk \in [Names -> RaceEntries]
    /\ stateFile \in {AbsentFile, IndexFile(0)}
    /\ prs = {}
    /\ now = Noon
    /\ tz = 0
    /\ pc = [p \in Procs |-> "idle"]
    /\ exit = [p \in Procs |-> 0 - 1]
    /\ files = [p \in Procs |-> << >>]
    /\ state = [p \in Procs |-> NoState]
    /\ checkedCount = [p \in Procs |-> 0]
    /\ selection = [p \in Procs |-> NullSelection]
    /\ content = [p \in Procs |-> << >>]
    /\ out = [p \in Procs |-> << >>]
    /\ hist = [p \in Procs |-> NoHist]
    /\ probe = [fn |-> "race", disk0 |-> disk, stateFile0 |-> stateFile]

\* One run of main() per process.
RaceMain(p) ==
    \/ Start(p)
    \/ LoadState(p)
    \/ Scan(p)
    \/ Guard(p)
    \/ WriteDoc(p)
    \/ Assign(p)
    \/ Exhausted(p)

NextRace == \E p \in Procs : RaceMain(p)

SpecRace == InitRace /\ [][NextRace]_vars

\* ----------------------------------------------------------- specification

\* Invocations one at a time, as the scheduler is expected to run them.
Main(p) ==
    \/ Start(p)
    \/ LoadState(p)
    \/ Scan(p)
    \/ Guard(p)
    \/ WriteDoc(p)
    \/ Assign(p)
    \/ Exhausted(p)
    \/ Exit(p)

Env ==
    \E f \in Names :
        \/ OpenPR(f)
        \/ ClosePR(f)
        \/ AddFile(f)
        \/ RemoveFile(f)

Next == Main(1) \/ Env

Spec == Init /\ [][Next]_vars

\* The steps of a running main(): the process is synchronous and single
\* threaded, so a started invocation keeps executing until it returns or
\* exits; when the scheduler starts one, and when anything around it
\* changes, is not constrained.
Run(p) ==
    \/ LoadState(p)
    \/ Scan(p)
    \/ Guard(p)
    \/ WriteDoc(p)
    \/ Assign(p)
    \/ Exhausted(p)

\* One invocation from start to end, over documents that are old, reviewed
\* today or unreadable, with no PR open or one on every document, and a
\* state file that is absent, holds null or holds a cursor.
InitLive ==
    /\ disk \in [Names -> {DirEntry, DocEntry(DocOld), DocEntry(DocToday)}]
    /\ stateFile \in {AbsentFile, JsonNullFile, IndexFile(1)}
    /\ prs \in {{}, {{f} : f \in Names}}
    /\ now = Noon
    /\ tz = 0
    /\ pc = [p \in Procs |-> "idle"]
    /\ exit = [p \in Procs |-> 0 - 1]
    /\ files = [p \in Procs |-> << >>]
    /\ state = [p \in Procs |-> NoState]
    /\ checkedCount = [p \in Procs |-> 0]
    /\ selection = [p \in Procs |-> NullSelection]
    /\ content = [p \in Procs |-> << >>]
    /\ out = [p \in Procs |-> << >>]
    /\ hist = [p \in Procs |-> NoHist]
    /\ probe = NoProbe

NextLive == Start(1) \/ Run(1)

\* A pass of the loop can be taken: ENABLED << Scan(p) >>_vars, written out.
ScanReady(p) == pc[p] = "scan" /\ checkedCount[p] < Len(files[p])

\* The steps other than a pass of the loop.
Straight(p) ==
    \/ LoadState(p)
    \/ Guard(p)
    \/ WriteDoc(p)
    \/ Assign(p)
    \/ Exhausted(p)

\* Weak fairness of every step of the running process; that of Scan is
\* spelled out with its enabling condition.
SpecLive ==
    /\ InitLive /\ [][NextLive]_vars
    /\ WF_vars(Straight(1))
    /\ ([]<>(~ScanReady(1)) \/ []<><< Scan(1) >>_vars)

\* ------------------------------------------------------- reading a run back

Done(p) == pc[p] = "done"

\* The invocation got past Start and loadState with an integer cursor.
Loaded(p) == hist[p].loaded /\ state[p].hasInt /\ ~state[p].isNull

FileCount(p) == Len(files[p])

\* The index and the file of the k-th candidate in rotation order, counted
\* from the loaded cursor: (c + k) mod N.
RotIndex(p, k) == (hist[p].cursor0 + k) % FileCount(p)
RotFile(p, k) == files[p][RotIndex(p, k) + 1]

\* The lines of one name in GITHUB_OUTPUT.
Outputs(p, name) == {i \in 1..Len(out[p]) : out[p][i].name = name}

EmitsTrue(p) == \E i \in Outputs(p, "needs_review") : out[p][i].flag
EmitsFalse(p) == \E i \in Outputs(p, "needs_review") : ~out[p][i].flag
EmittedPaths(p) == {out[p][i].path : i \in Outputs(p, "file_path")}
EmittedAssignees(p) == {out[p][i].who : i \in Outputs(p, "assignee")}

OnlyFalseEmitted(p) == out[p] = << Output("needs_review", FALSE, 0, << >>) >>

\* As the invocation found the world: is f a document, is it stale, is it
\* covered by an open PR.
IsDoc0(p, f) == hist[p].disk0[f].kind = "doc"
Stale0(p, f) ==
    /\ IsDoc0(p, f)
    /\ needsReview(getReviewDate(hist[p].disk0[f].content, tz), now)
Fresh0(p, f) ==
    /\ IsDoc0(p, f)
    /\ ~needsReview(getReviewDate(hist[p].disk0[f].content, tz), now)
Covered0(p, f) == \E pr \in hist[p].prs0 : f \in pr

Visits(p) == hist[p].visits
LastVisit(p) == Visits(p)[Len(Visits(p))]
ReachedFound(p) == Visits(p) # << >> /\ LastVisit(p).verdict = "found"

\* The documents other than f are as the invocation found them.
OthersUntouched(p, f) == \A g \in Names \ {f} : disk[g] = hist[p].disk0[g]

\* The literal of the first review line of a document on disk.
ReviewLiteral(f) == disk[f].content[FirstMarker(disk[f].content)].lit

\* ------------------------------------------------------------------ claims

\* The open-proposal query about the k-th candidate in rotation order was
\* made and failed.
QueryFailedAt(p, k) ==
    /\ k <= Len(Visits(p))
    /\ Visits(p)[k].file = RotFile(p, k)
    /\ ~Visits(p)[k].queryOk

\* The positions, in rotation order, of the documents that are stale and
\* eligible: no open proposal covers them.
StaleUncovered(p) ==
    {k \in 1..FileCount(p) :
        Stale0(p, RotFile(p, k)) /\ ~Covered0(p, RotFile(p, k))}

\* ... or the guard answered false for them: no open proposal covers them,
\* or the query about them failed.
StaleUnguarded(p) ==
    {k \in 1..FileCount(p) :
        /\ Stale0(p, RotFile(p, k))
        /\ (~Covered0(p, RotFile(p, k)) \/ QueryFailedAt(p, k))}

Least(S) == CHOOSE k \in S : \A j \in S : k <= j

\* What C1 says of a finished invocation, for a set of eligible positions.
EmitsFirstOf(p, eligible) ==
    /\ EmitsTrue(p) <=> eligible # {}
    /\ EmitsTrue(p) =>
         /\ EmittedPaths(p) = {RotFile(p, Least(eligible))}
         /\ \A j \in 1..(Least(eligible) - 1) :
               Fresh0(p, RotFile(p, j)) \/ Covered0(p, RotFile(p, j))

\* Every listed entry is a readable document.
AllDocs0(p) == \A k \in 1..FileCount(p) : IsDoc0(p, files[p][k])

\* C1 as stated: every finished invocation over a non-empty listing of
\* documents with a loaded cursor emits needsReview=true iff some document is
\* stale and has no open proposal, and then names the first such in rotation
\* order.
C1_Original ==
    \A p \in Procs :
        (Done(p) /\ Loaded(p) /\ FileCount(p) > 0 /\ AllDocs0(p))
            => EmitsFirstOf(p, StaleUncovered(p))

\* C1 (amended): an invocation that ends without a fatal error, over a
\* non-empty listing with a loaded cursor, emits needsReview=true iff some
\* document is stale and the guard is false for it (no open proposal, or the
\* query about it failed); the emitted filePath is the first such document
\* in rotation order and every document before it was fresh or covered.
C1_FirstStaleUnguarded ==
    \A p \in Procs :
        (Done(p) /\ exit[p] = 0 /\ Loaded(p) /\ FileCount(p) > 0)
            => EmitsFirstOf(p, StaleUnguarded(p))

\* C1 witness: from cursor 1 over three documents the scan wrapped around,
\* passed a fresh and a guarded document and emitted the third.
C1_Witness ==
    /\ Done(1) /\ exit[1] = 0 /\ EmitsTrue(1)
    /\ FileCount(1) = 3 /\ hist[1].cursor0 = 1
    /\ Len(Visits(1)) = 3
    /\ Visits(1)[1].verdict = "fresh" /\ Visits(1)[1].index = 2
    /\ Visits(1)[2].verdict = "guarded" /\ Visits(1)[2].index = 0
    /\ Visits(1)[3].verdict = "found" /\ Visits(1)[3].index = 1

\* C2: in one invocation at most one document is rewritten and at most one
\* needsReview=true record is emitted, and once a candidate is found no
\* further candidate is read, checked or written: the found candidate is the
\* last one read and visited and the only one written.
C2_AtMostOneProposal ==
    \A p \in Procs :
        /\ Len(hist[p].writes) <= 1
        /\ Cardinality({i \in Outputs(p, "needs_review") : out[p][i].flag}) <= 1
        /\ \A k \in 1..(Len(Visits(p)) - 1) : Visits(p)[k].verdict # "found"
        /\ ReachedFound(p) =>
             /\ Len(hist[p].reads) = Len(Visits(p))
             /\ hist[p].reads[Len(hist[p].reads)] = LastVisit(p).file
             /\ \A i \in 1..Len(hist[p].writes) :
                   hist[p].writes[i] = LastVisit(p).file
        /\ hist[p].writes # << >> => ReachedFound(p)

\* C2 witness: an invocation emitted one document and ended while another
\* stale, uncovered document was still waiting behind it.
C2_Witness ==
    /\ Done(1) /\ exit[1] = 0 /\ EmitsTrue(1)
    /\ Len(hist[1].writes) = 1
    /\ Cardinality(StaleUncovered(1)) >= 2

\* C3 as stated: needsReview=true is never emitted for, and the Orchestrator
\* never rewrites, a document that an open change proposal covers.
C3_Original ==
    \A p \in Procs :
        /\ \A f \in EmittedPaths(p) : ~(\E pr \in prs : f \in pr)
        /\ \A i \in 1..Len(hist[p].writes) :
              ~(\E pr \in prs : hist[p].writes[i] \in pr)

\* The query made about document f by invocation p failed.
QueryFailedFor(p, f) ==
    \E k \in 1..Len(Visits(p)) : Visits(p)[k].file = f /\ ~Visits(p)[k].queryOk

\* C3 (amended): needsReview=true is never emitted for, and the Orchestrator
\* never rewrites, a document that an open change proposal covers, unless
\* the open-proposal query about that document failed (the guard fails open).
C3_NoDuplicateUnlessQueryFails ==
    \A p \in Procs :
        /\ \A f \in EmittedPaths(p) :
              (\E pr \in prs : f \in pr) => QueryFailedFor(p, f)
        /\ \A i \in 1..Len(hist[p].writes) :
              (\E pr \in prs : hist[p].writes[i] \in pr)
                  => QueryFailedFor(p, hist[p].writes[i])

\* C3 witness: in a later invocation (the cursor was already persisted) a
\* stale document covered by an open proposal was skipped on a successful
\* query, and the next stale document was emitted.
C3_Witness ==
    /\ Done(1) /\ exit[1] = 0 /\ EmitsTrue(1)
    /\ hist[1].stateFile0.kind = "object"
    /\ \E k \in 1..Len(Visits(1)) :
          /\ Visits(1)[k].verdict = "guarded"
          /\ Visits(1)[k].queryOk
          /\ Stale0(1, Visits(1)[k].file)
    /\ \A f \in EmittedPaths(1) : ~Covered0(1, f)

\* What C4 promises at the end of an invocation that found the candidate of
\* its last visit.
FoundOutcome(p) ==
    LET v == LastVisit(p)
    IN  /\ stateFile = IndexFile(v.index)
        /\ disk[v.file].kind = "doc"
        /\ FirstMarker(disk[v.file].content) # 0
        /\ ReviewLiteral(v.file) = formatDate(now, tz)
        /\ EmitsTrue(p) /\ ~EmitsFalse(p)
        /\ EmittedPaths(p) = {v.file}
        /\ Cardinality(EmittedAssignees(p)) = 1
        /\ EmittedAssignees(p) \subseteq selectRandomAssignee(hist[p].pool)
        /\ OthersUntouched(p, v.file)

\* C4 as stated: whenever an invocation reaches Found at index i, at its end
\* the persisted cursor is i, the document's review date is today, the
\* record needsReview=true with that filePath and an assignee was emitted,
\* and no other document changed.
C4_Original ==
    \A p \in Procs : (Done(p) /\ ReachedFound(p)) => FoundOutcome(p)

\* C4 (amended): the same, when the assignee pool has at least one non-blank
\* entry (with an empty pool the invocation aborts at Found).
C4_FoundOutcome ==
    \A p \in Procs :
        (Done(p) /\ ReachedFound(p) /\ selectRandomAssignee(hist[p].pool) # {})
            => FoundOutcome(p)

\* C4 witness: a.md and b.md fresh, c.md stale, cursor -1: the scan passed
\* index 0 and 1 and found index 2.
C4_Witness ==
    /\ Done(1) /\ exit[1] = 0 /\ ReachedFound(1)
    /\ FileCount(1) = 3 /\ hist[1].cursor0 = 0 - 1
    /\ Len(Visits(1)) = 3
    /\ Visits(1)[1].verdict = "fresh" /\ Visits(1)[2].verdict = "fresh"
    /\ LastVisit(1).index = 2
    /\ stateFile = IndexFile(2)

\* C5: when every listed document is fresh, an invocation with loaded
\* cursor c checks all N documents once each, in rotation order, emits only
\* needsReview=false, rewrites nothing and persists (c + N) mod N: N - 1
\* when c = -1, c itself when c is in [0, N-1].
C5_AllFresh ==
    \A p \in Procs :
        (/\ Done(p) /\ Loaded(p) /\ FileCount(p) > 0
         /\ \A k \in 1..FileCount(p) : Fresh0(p, files[p][k]))
        => LET n == FileCount(p)
               c == hist[p].cursor0
           IN  /\ exit[p] = 0
               /\ Len(Visits(p)) = n
               /\ \A k \in 1..n : /\ Visits(p)[k].index = RotIndex(p, k)
                                  /\ Visits(p)[k].verdict = "fresh"
               /\ hist[p].reads = [k \in 1..n |-> RotFile(p, k)]
               /\ OnlyFalseEmitted(p)
               /\ hist[p].writes = << >>
               /\ disk = hist[p].disk0
               /\ stateFile = IndexFile((c + n) % n)
               /\ c = 0 - 1 => stateFile = IndexFile(n - 1)
               /\ c \in 0..(n - 1) => stateFile = IndexFile(c)

\* C5 witness: three fresh documents, cursor 1: a full cycle 2, 0, 1 ends
\* with the cursor where it was.
C5_Witness ==
    /\ Done(1) /\ Loaded(1) /\ FileCount(1) = 3
    /\ \A k \in 1..3 : Fresh0(1, files[1][k])
    /\ hist[1].cursor0 = 1
    /\ Len(Visits(1)) = 3
    /\ stateFile = IndexFile(1)

\* C6: a stale document for which the guard answers true is skipped without
\* being rewritten: its content stays as it was, the cursor moves to its
\* index, and when every listed document is fresh or stale and guarded (at
\* least one is), the scan exhausts: only needsReview=false is emitted, no
\* document changes and the cursor is persisted at the last index checked.
C6_GuardedSkipped ==
    \A p \in Procs :
        /\ \A k \in 1..Len(Visits(p)) :
              Visits(p)[k].verdict = "guarded"
                  => disk[Visits(p)[k].file] = hist[p].disk0[Visits(p)[k].file]
        /\ (pc[p] = "scan" /\ Visits(p) # << >>
              /\ LastVisit(p).verdict = "guarded")
              => state[p].lastIndex = LastVisit(p).index
        /\ (/\ Done(p) /\ Loaded(p) /\ FileCount(p) > 0
            /\ \A k \in 1..FileCount(p) :
                  \/ Fresh0(p, RotFile(p, k))
                  \/ /\ Stale0(p, RotFile(p, k))
                     /\ Covered0(p, RotFile(p, k))
                     /\ ~QueryFailedAt(p, k)
            /\ \E k \in 1..FileCount(p) : Stale0(p, RotFile(p, k)))
           => /\ exit[p] = 0
              /\ OnlyFalseEmitted(p)
              /\ Len(Visits(p)) = FileCount(p)
              /\ disk = hist[p].disk0
              /\ stateFile = IndexFile(RotIndex(p, FileCount(p)))

\* C6 witness: a.md and b.md fresh, c.md stale with an open proposal, cursor
\* -1: the scan exhausted, the cursor is 2 and c.md is as it was.
C6_Witness ==
    /\ Done(1) /\ exit[1] = 0 /\ FileCount(1) = 3
    /\ hist[1].cursor0 = 0 - 1
    /\ Fresh0(1, 1) /\ Fresh0(1, 2) /\ Stale0(1, 3) /\ Covered0(1, 3)
    /\ Len(Visits(1)) = 3 /\ LastVisit(1).verdict = "guarded"
    /\ OnlyFalseEmitted(1)
    /\ stateFile = IndexFile(2)
    /\ disk[3] = DocEntry(DocOld)

\* C7: selectNextFile(files, lastIndex) on a listing of length N > 0 with
\* lastIndex in [-1, N-1] returns index (lastIndex + 1) mod N and the file
\* at that index; on an empty listing it returns null whatever lastIndex is.
C7_SelectNext ==
    probe.fn = "selectNextFile" /\ probe.applied =>
        LET n == Len(probe.files)
            r == probe.result
        IN  /\ (n > 0 /\ probe.lastIndex \in (0 - 1)..(n - 1)) =>
                  /\ ~r.nul
                  /\ r.index = (probe.lastIndex + 1) % n
                  /\ r.index \in 0..(n - 1)
                  /\ r.file = probe.files[r.index + 1]
            /\ n = 0 => r.nul

\* C7 witness: from the last index of a three file listing the selection
\* wraps to index 0, the first file.
C7_Witness ==
    /\ probe.fn = "selectNextFile" /\ probe.applied
    /\ Len(probe.files) = 3 /\ probe.lastIndex = 2
    /\ probe.result.index = 0 /\ probe.result.file = probe.files[1]

\* The candidate selected by an invocation is an element of its listing.
ValidSelection(p) ==
    /\ selection[p].index \in 0..(FileCount(p) - 1)
    /\ selection[p].file = files[p][selection[p].index + 1]

\* Every selection an invocation with a loaded integer cursor has made so
\* far is valid, whatever the lengths of this and of the previous listing.
SelectsValidIndex ==
    \A p \in Procs :
        (Loaded(p) /\ FileCount(p) > 0) =>
            /\ pc[p] \in {"guard", "write", "assign", "done"} => ValidSelection(p)
            /\ \A k \in 1..Len(Visits(p)) :
                  /\ Visits(p)[k].index \in 0..(FileCount(p) - 1)
                  /\ Visits(p)[k].file = files[p][Visits(p)[k].index + 1]

\* C8 as stated: after any invocation the persisted lastIndex is in
\* [-1, fileCount-1] of the most recent listing, and a selection after a
\* change of the listing's length is valid.
C8_Original ==
    /\ \A p \in Procs :
          (Done(p) /\ hist[p].listed /\ stateFile.kind = "object"
              /\ stateFile.hasInt)
              => stateFile.lastIndex \in (0 - 1)..(FileCount(p) - 1)
    /\ SelectsValidIndex

\* C8 (amended): after an invocation that persists the cursor (it ended in
\* Found or Exhausted) the persisted lastIndex is in [0, fileCount-1] of its
\* listing; an invocation that persists nothing (empty listing, abort) leaves
\* the stored record as it was; and every selection made from a loaded
\* integer cursor is a valid index of the current listing, whether the
\* listing grew or shrank below the stored lastIndex.
C8_CursorInRange ==
    /\ \A p \in Procs :
          /\ (Done(p) /\ hist[p].saves > 0) =>
                /\ stateFile.kind = "object" /\ stateFile.hasInt
                /\ stateFile.lastIndex \in 0..(FileCount(p) - 1)
          /\ (pc[p] # "idle" /\ hist[p].saves = 0) => stateFile = hist[p].stateFile0
    /\ SelectsValidIndex

\* C8 witness: the listing shrank below the stored lastIndex, and the
\* invocation still went through candidates and persisted a cursor.
C8_Witness ==
    /\ Done(1) /\ exit[1] = 0 /\ Loaded(1)
    /\ FileCount(1) > 0
    /\ hist[1].cursor0 > FileCount(1) - 1
    /\ Visits(1) # << >>
    /\ hist[1].saves = 1

\* The state file the invocation found holds no record with an integer
\* lastIndex.
Corrupt0(p) ==
    hist[p].stateFile0.kind # "object" \/ ~hist[p].stateFile0.hasInt

\* C9 as stated: with the state file absent, unreadable or corrupt, loading
\* is not fatal and the invocation starts from lastIndex = -1: its first
\* candidate is index 0 and it does not end before reading a candidate.
C9_LoadNeverFatal ==
    \A p \in Procs :
        (hist[p].loaded /\ Corrupt0(p)) =>
            /\ Loaded(p)
            /\ hist[p].cursor0 = 0 - 1
            /\ Visits(p) # << >> => Visits(p)[1].index = 0
            /\ Done(p) => hist[p].reads # << >>

\* C10: over an empty listing the invocation emits only needsReview=false
\* and returns normally; it neither loads nor writes the state file and
\* reads and writes no document.
C10_EmptyListing ==
    \A p \in Procs :
        (Done(p) /\ hist[p].listed /\ FileCount(p) = 0) =>
            /\ exit[p] = 0
            /\ OnlyFalseEmitted(p)
            /\ ~hist[p].loaded
            /\ hist[p].saves = 0
            /\ stateFile = hist[p].stateFile0
            /\ hist[p].reads = << >> /\ hist[p].writes = << >>
            /\ disk = hist[p].disk0

\* C10 witness: every document was removed after a cursor had been
\* persisted; the invocation over the empty listing has ended.
C10_Witness ==
    /\ Done(1) /\ hist[1].listed /\ FileCount(1) = 0
    /\ hist[1].stateFile0 = IndexFile(2)
    /\ exit[1] = 0

\* The candidates the scan passed: found fresh, or skipped by the guard.
Passed(p) ==
    SelectSeq(Visits(p), LAMBDA v : v.verdict \in {"fresh", "guarded"})

\* C11 as stated: when an invocation aborts after the scan has passed at
\* least one fresh or guarded candidate, the state file holds the index of
\* the last candidate passed.
C11_AbortKeepsAdvance ==
    \A p \in Procs :
        (Done(p) /\ exit[p] = 1 /\ Passed(p) # << >>) =>
            stateFile = IndexFile(Passed(p)[Len(Passed(p))].index)

\* The document of a visit has been rewritten with today's date.
Rewritten(p, v) ==
    /\ \E i \in 1..Len(hist[p].writes) : hist[p].writes[i] = v.file
    /\ disk[v.file].kind = "doc"
    /\ FirstMarker(disk[v.file].content) # 0
    /\ ReviewLiteral(v.file) = formatDate(now, tz)

\* C12: a failed open-proposal query counts as no open proposal.  The stale
\* candidate it was made about is found, not skipped, whether or not an open
\* PR covers it; the failure does not end the invocation, and the candidate
\* is rewritten as the next step.
C12_GuardFailsOpen ==
    \A p \in Procs :
        \A k \in 1..Len(Visits(p)) :
            ~Visits(p)[k].queryOk =>
                /\ Visits(p)[k].verdict = "found"
                /\ k = Len(Visits(p))
                /\ Stale0(p, Visits(p)[k].file)
                /\ pc[p] \in {"write", "assign", "done"}
                /\ pc[p] = "write" => exit[p] = 0 - 1
                /\ pc[p] # "write" => Rewritten(p, Visits(p)[k])
                /\ (Done(p) /\ exit[p] = 1) => selectRandomAssignee(hist[p].pool) = {}

\* C12 witness: the query about a stale document that an open PR covers
\* failed, and the invocation rewrote the document and emitted it.
C12_Witness ==
    /\ Done(1) /\ exit[1] = 0
    /\ ReachedFound(1)
    /\ ~LastVisit(1).queryOk
    /\ Covered0(1, LastVisit(1).file)
    /\ Rewritten(1, LastVisit(1))
    /\ EmittedPaths(1) = {LastVisit(1).file}

\* The handles of a TEAM_MEMBERS value: the entries between the commas with
\* the white space around them taken off, the blank ones left out.
Handles(teamMembers) ==
    LET entries == SplitComma(teamMembers)
    IN  {Trim(entries[i]) : i \in 1..Len(entries)} \ {<< >>}

\* A handle is not blank, carries no white space at either end and no comma.
WellFormedHandle(h) ==
    /\ h # << >>
    /\ Head(h) # " " /\ h[Len(h)] # " "
    /\ \A i \in 1..Len(h) : h[i] # ","

\* C13: selectRandomAssignee returns a handle of the pool, trimmed and not
\* blank, and throws exactly when the pool has no handle.  An invocation
\* that emits needsReview=true emits one assignee, a handle of the pool it
\* read; an invocation that reaches a found candidate with a pool without
\* handles exits with status 1 and emits no needsReview=true.
C13_Assignee ==
    \A p \in Procs :
          /\ (Done(p) /\ ReachedFound(p)) =>
                /\ selectRandomAssignee(hist[p].pool) = Handles(hist[p].pool)
                /\ \A h \in selectRandomAssignee(hist[p].pool) :
                      WellFormedHandle(h)
          /\ EmitsTrue(p) =>
                /\ Cardinality(EmittedAssignees(p)) = 1
                /\ EmittedAssignees(p) \subseteq Handles(hist[p].pool)
                /\ \A h \in EmittedAssignees(p) : WellFormedHandle(h)
          /\ (Done(p) /\ ReachedFound(p)) =>
                IF Handles(hist[p].pool) = {}
                THEN exit[p] = 1 /\ ~EmitsTrue(p)
                ELSE exit[p] = 0 /\ EmitsTrue(p)

\* C13 witness: an invocation that read a pool of blank entries at a found
\* candidate has aborted.
C13_Witness ==
    /\ Done(1) /\ ReachedFound(1)
    /\ hist[1].pool = << " ", ",", " " >>
    /\ exit[1] = 1

\* now - reviewDate - ONE_MONTH_MS in milliseconds, for dates less than a
\* few days off the window's edge.
ExcessMs(clock, reviewDate) ==
    (clock.day - reviewDate.day - ONE_MONTH_DAYS) * MS_PER_DAY
        + (clock.ms - reviewDate.ms)

\* C14: needsReview is true for no review date; for a review date it is
\* true exactly when now - reviewDate exceeds 30 * 24 * 60 * 60 * 1000
\* milliseconds: false at exactly 30 days, true one millisecond later.
C14_Window ==
    (probe.fn = "needsReview" /\ probe.applied) =>
        /\ ~probe.reviewDate.some => probe.result
        /\ probe.reviewDate.some =>
              /\ probe.result <=> ExcessMs(probe.now, probe.reviewDate) > 0
              /\ ExcessMs(probe.now, probe.reviewDate) = 0 => ~probe.result
              /\ ExcessMs(probe.now, probe.reviewDate) = 1 => probe.result

\* C14 witness: needsReview was called with a review date 30 days and one
\* millisecond before the clock and answered true.
C14_Witness ==
    /\ probe.fn = "needsReview" /\ probe.applied
    /\ probe.reviewDate.some
    /\ ExcessMs(probe.now, probe.reviewDate) = 1
    /\ probe.result

\* The lengths of the months of year y.
IsLeapYear(y) == y % 4 = 0 /\ (y % 100 # 0 \/ y % 400 = 0)
DaysInMonth(y, m) ==
    IF m = 2 THEN (IF IsLeapYear(y) THEN 29 ELSE 28)
    ELSE IF m \in {4, 6, 9, 11} THEN 30
    ELSE 31

\* The literal names a day of the calendar.
RealDate(lit) ==
    /\ lit # NoLit
    /\ lit[2] \in 1..12
    /\ lit[3] \in 1..DaysInMonth(lit[1], lit[2])

\* The review-date literals a document carries: of its marker lines and of
\* its reviewed_at fields.
ReviewLines(c) ==
    {i \in 1..Len(c) :
        c[i].k = "marker" \/ (c[i].k = "kv" /\ c[i].key = "reviewed_at")}

C16_RoundTrip ==
    (probe.fn = "codec" /\ probe.stage = 3) =>
        /\ probe.readBack.some
        /\ formatDate(probe.readBack, probe.tz)
              = formatDate(probe.newDate, probe.tz)

\* The document begins with a front-matter block: a delimiter line, fields,
\* a delimiter line.
BlockEnd(c) ==
    IF Len(c) >= 2 /\ c[1].k = "delim" /\ (\E i \in 2..Len(c) : c[i].k = "delim")
    THEN CHOOSE i \in 2..Len(c) :
            c[i].k = "delim" /\ \A j \in 2..(i - 1) : c[j].k # "delim"
    ELSE 0

\* The positions of the reviewed_at fields of the leading block.
BlockReviewedAt(c) ==
    {i \in 2..(BlockEnd(c) - 1) : c[i].k = "kv" /\ c[i].key = "reviewed_at"}

\* C17 as stated: updateReviewDate on a document whose front-matter block
\* has a reviewed_at field puts the new date into that field and leaves
\* every other line, in the block and below it, as it was and where it was.
C17_WriteKeepsBlock ==
    (probe.fn = "codec" /\ probe.stage >= 2
        /\ BlockReviewedAt(probe.content) # {}) =>
        LET c == probe.content
            w == probe.written
        IN  /\ Len(w) = Len(c)
            /\ \A i \in 1..Len(c) :
                  IF i \in BlockReviewedAt(c)
                  THEN /\ w[i].k = "kv" /\ w[i].key = "reviewed_at"
                       /\ w[i].lit = formatDate(probe.newDate, probe.tz)
                  ELSE w[i] = c[i]

\* C18 as stated: updateReviewDate on a document without a review line and
\* without a front-matter block returns a block of the one field
\* reviewed_at, an empty line and the document as it was; no line of the
\* result is a 'reviewed at' marker.
C18_WriteNewBlock ==
    (probe.fn = "codec" /\ probe.stage >= 2
        /\ ReviewLines(probe.content) = {} /\ BlockEnd(probe.content) = 0) =>
        /\ probe.written =
              << DelimLine,
                 KvLine("reviewed_at", formatDate(probe.newDate, probe.tz), ""),
                 DelimLine, BlankLine >> \o probe.content
        /\ FirstMarker(probe.written) = 0

\* The fields between the delimiter lines of a leading block.
BlockFields(c) == {i \in 2..(BlockEnd(c) - 1) : c[i].k = "kv"}

\* C19 as stated: parseFrontMatter reports hasFrontMatter = true exactly for
\* content that begins with a delimiter line, at least one key: value line
\* and a delimiter line, and then exposes every key of the block with its
\* value; otherwise it reports hasFrontMatter = false and no fields.
C19_ParsePresent ==
    (probe.fn = "parseFrontMatter" /\ probe.applied) =>
        LET c == probe.content
            r == probe.result
        IN  IF BlockFields(c) # {}
            THEN /\ r.hasFrontMatter
                 /\ DOMAIN r.frontMatter = {c[i].key : i \in BlockFields(c)}
                 /\ \A key \in DOMAIN r.frontMatter :
                       \E i \in BlockFields(c) :
                          c[i].key = key /\ r.frontMatter[key] = FieldValue(c[i])
            ELSE r = NoFrontMatter

\* The values of the reviewed_at fields of the leading block, the empty
\* value left out.
ReviewedAtValues(c) ==
    {FieldValue(c[i]) : i \in BlockReviewedAt(c)} \ {FieldValue(BlankLine)}

\* The problems the Verifier may report for a path, by what the working tree
\* holds there: none for a deleted file; MissingFrontMatter for content that
\* does not begin with a delimiter line; MissingReviewedAt for a block with
\* fields and no reviewed_at value; StaleOrMismatchedDate for a value other
\* than today's literal; none for today's literal.  A block without any
\* field is reported under one of the two Missing reasons.
Expected(entry, today) ==
    LET c == entry.content
    IN  IF entry.kind = "none" THEN {NoProblem}
        ELSE IF Len(c) = 0 \/ c[1].k # "delim" THEN {"MissingFrontMatter"}
        ELSE IF BlockFields(c) = {}
        THEN {"MissingFrontMatter", "MissingReviewedAt"}
        ELSE IF ReviewedAtValues(c) = {} THEN {"MissingReviewedAt"}
        ELSE IF ReviewedAtValues(c) = {[lit |-> today, txt |-> ""]}
        THEN {NoProblem}
        ELSE {"StaleOrMismatchedDate"}

\* The problems reported for a path.
ProblemsOf(path) ==
    {j \in 1..Len(probe.problems) : probe.problems[j].path = path}

SavedBy(p) ==
    {IndexFile(Visits(p)[k].index) : k \in 1..Len(Visits(p))}

ReadsOnce(p) ==
    \A i, j \in 1..Len(hist[p].reads) :
        hist[p].reads[i] = hist[p].reads[j] => i = j

\* The scan stays within the listing: as many passes as candidates passed,
\* at most one more read than passes, never more reads than documents.
ScanBounded(p) ==
    /\ checkedCount[p] = Len(Passed(p))
    /\ checkedCount[p] <= FileCount(p)
    /\ Len(hist[p].reads) <= checkedCount[p] + 1
    /\ Len(hist[p].reads) <= FileCount(p)
    /\ ReadsOnce(p)

\* C22: an invocation with a loaded cursor reads and checks each document
\* at most once, in at most as many passes of the loop as there are
\* documents, and every started invocation comes to its end.
C22_Terminates ==
    /\ [](\A p \in Procs : (hist[p].listed /\ Loaded(p)) => ScanBounded(p))
    /\ \A p \in Procs : (pc[p] # "idle") ~> Done(p)

\* C22 witness: every document was stale and covered by an open PR; the
\* invocation skipped each once and has ended.
C22_Witness ==
    /\ Done(1) /\ exit[1] = 0
    /\ FileCount(1) = MaxFiles
    /\ Len(Visits(1)) = MaxFiles
    /\ \A k \in 1..MaxFiles : Visits(1)[k].verdict = "guarded"

\* --------------------------------------------- invocations one after another

\* The scheduler runs main() again and again over the same docs/ listing;
\* nothing but main() touches the documents, the state file or the PRs.
\* probe keeps the documents and the state file as they were before the
\* first run, and for each finished run its exit status, the file_path
\* values it emitted and the state file it left.
Rounds == MaxFiles + 1

InitRotate ==
    /\ disk \in [Names -> {NoEntry, DocEntry(DocOld), DocEntry(DocToday)}]
    /\ stateFile \in {AbsentFile, IndexFile(0), IndexFile(MaxFiles - 1)}
    /\ prs \in {{}, {{1}}}
    /\ now = Noon
    /\ tz = 0
    /\ pc = [p \in Procs |-> "idle"]
    /\ exit = [p \in Procs |-> 0 - 1]
    /\ files = [p \in Procs |-> << >>]
    /\ state = [p \in Procs |-> NoState]
    /\ checkedCount = [p \in Procs |-> 0]
    /\ selection = [p \in Procs |-> NullSelection]
    /\ content = [p \in Procs |-> << >>]
    /\ out = [p \in Procs |-> << >>]
    /\ hist = [p \in Procs |-> NoHist]
    /\ probe = [fn |-> "rotate", disk0 |-> disk, stateFile0 |-> stateFile,
                runs |-> << >>]

\* The run is over and the next one can be triggered.
Relaunch(p) ==
    /\ probe.fn = "rotate"
    /\ Len(probe.runs) < Rounds
    /\ Gone(p)
    /\ probe' = [probe EXCEPT !.runs = Append(@,
                    [exit |-> exit[p], emitted |-> EmittedPaths(p),
                     cursor |-> stateFile])]
    /\ UNCHANGED world

NextRotate == Start(1) \/ Run(1) \/ Relaunch(1)

SpecRotate == InitRotate /\ [][NextRotate]_vars

\* The run before the current one.
LastRun == probe.runs[Len(probe.runs)]

\* The listing every run gets, and the cursor before the first run.
Listing0 == getDocFiles(probe.disk0)
Cursor0 == loadState(probe.stateFile0).lastIndex

\* Before the first run every document was stale and none had a PR.
AllStaleUnguarded ==
    /\ prs = {}
    /\ \A f \in Names :
         probe.disk0[f].kind = "doc"
             => needsReview(getReviewDate(probe.disk0[f].content, tz), now)

\* The runs so far all exited with status 0.
AllCompleted == \A j \in 1..Len(probe.runs) : probe.runs[j].exit = 0

\* C23: with a fixed listing of N documents, (a) a run finds in the state
\* file what the run before it left, (b) its first candidate is at index
\* (persisted lastIndex + 1) mod N, (c) the document the run before emitted
\* is read, if at all, as the N-th candidate, and (d) when every document
\* was stale and unguarded, the j-th of the first N completed runs emits the
\* document at (initial cursor + j) mod N and nothing else, so that N runs
\* emit every document exactly once in listing order.
C23_RoundRobin ==
    /\ (probe.runs # << >> /\ pc[1] # "idle")
           => hist[1].stateFile0 = LastRun.cursor
    /\ (Loaded(1) /\ Visits(1) # << >>)
           => /\ hist[1].cursor0 = loadState(hist[1].stateFile0).lastIndex
              /\ Visits(1)[1].index = JsRem(hist[1].cursor0 + 1, FileCount(1))
    /\ (probe.runs # << >> /\ LastRun.exit = 0)
           => \A f \in LastRun.emitted :
                \A k \in 1..Len(hist[1].reads) :
                   hist[1].reads[k] = f => k = FileCount(1)
    /\ (AllStaleUnguarded /\ AllCompleted)
           => LET N == Len(Listing0)
              IN  /\ \A j \in 1..Len(probe.runs) :
                        j <= N => probe.runs[j].emitted =
                                    {Listing0[JsRem(Cursor0 + j, N) + 1]}
                  /\ Len(probe.runs) >= N
                        => UNION {probe.runs[j].emitted : j \in 1..N}
                             = {f \in Names : probe.disk0[f].kind = "doc"}

\* Three stale documents and cursor 0: three completed runs have emitted
\* documents 2, 3 and 1, and a fourth run is reading its last candidate,
\* the document the third emitted.
C23_Witness ==
    /\ AllStaleUnguarded /\ AllCompleted
    /\ Len(Listing0) = MaxFiles
    /\ probe.stateFile0 = IndexFile(0)
    /\ Len(probe.runs) = MaxFiles
    /\ LastRun.emitted = {1}
    /\ Len(hist[1].reads) = MaxFiles
    /\ hist[1].reads[MaxFiles] = 1

\* The content ends with the lines of c, unchanged.
EndsWith(written, c) ==
    /\ Len(written) >= Len(c)
    /\ SubSeq(written, Len(written) - Len(c) + 1, Len(written)) = c

\* C24 as stated: when the first line of a document is not the marker but a
\* later line is, getReviewDate returns no date for it and
\* updateReviewDate leaves every line of it as it was, putting the new
\* metadata before them.
C24_BodyMarkerIsBody ==
    (probe.fn = "codec" /\ FirstMarker(probe.content) > 1) =>
        /\ probe.stage >= 1 => ~probe.read.some
        /\ probe.stage >= 2 => EndsWith(probe.written, probe.content)

\* C25 as stated: when an invocation has ended, a document that differs from
\* what it was at the start is the one emitted as file_path along with
\* needs_review=true; an invocation that ended with needs_review=false, or
\* with exit status 1, has written no document.
C25_WriteOnlyWhenEmitted ==
    \A p \in Procs :
        Done(p) =>
            /\ \A f \in Names :
                 disk[f] # hist[p].disk0[f]
                     => EmitsTrue(p) /\ f \in EmittedPaths(p)
            /\ (EmitsFalse(p) \/ exit[p] = 1)
                     => hist[p].writes = << >> /\ disk = hist[p].disk0

\* C26 as stated: what updateReviewDate(content, d) returns passes the
\* Verifier's checks of a modified document when the Verifier's today is
\* the calendar date of d.
C26_WrittenIsAccepted ==
    (probe.fn = "codec" /\ probe.stage >= 2) =>
        checkFile(probe.written, formatDate(probe.newDate, probe.tz))
            = NoProblem

\* C27 as stated: a Verifier run that ends with exit status 0 has had the
\* answer of git and has gone through every changed document; when the
\* query fails the exit status is not 0.
C27_QueryFailureNotPassed ==
    (probe.fn = "verifier" /\ probe.pcv = "done") =>
        /\ ~probe.gitOk => probe.exit # 0
        /\ probe.exit = 0 =>
              \A f \in probe.changed :
                 \E k \in 1..Len(probe.modifiedFiles) :
                    probe.modifiedFiles[k] = f

====
